---- MODULE Spec2Model ----
(***************************************************************************)
(* The build/artifact cache manager of internal/server/webserver           *)
(* (buildmanager.go): Build, Get, List, Delete, writeCache and             *)
(* startBuildManager over the package-level cache, its sync.RWMutex, the   *)
(* target catalog and the on-disk description.json.                        *)
(*                                                                         *)
(* Strings that the code concatenates or splits are sequences of tokens:   *)
(* filepath.Join(cachePath, filename) is <<cachePath, filename>>, a "+="   *)
(* is an Append, and "http://"+addr+"/"+name is a four-token sequence.     *)
(***************************************************************************)
EXTENDS Integers, Sequences, FiniteSets, TLC

\* ------------------------------------------------------------------ bounds

\* Number of goroutines calling the public API concurrently.
NumCallers == 2

\* Caps on file.Hits (an unbounded Go int): Get is not called on a key whose
\* counter has reached the cap.  The first is the cap of the concurrent
\* callers, the second that of the callers whose Get history is kept.
MaxHits == 1

MaxHitsTracked == 2

Callers == 1..NumCallers

\* The goroutine that runs startBuildManager.
Main == 0

Procs == {Main} \cup Callers

\* ------------------------------------------------------- input domains

\* Lookup keys: the operator-supplied name and what RandomString can return.
SuppliedNames == {"a"}
RandomNames == {"r"}
Names == SuppliedNames \cup RandomNames

\* json.Marshal writes a map's keys in sorted order.
NameOrder == <<"a", "r">>

\* What internal.RandomString(16) can return for the artifact filename.
FileNames == {"f1", "f2"}

\* The lines of `go tool dist list`, as bytes.Split(output, "\n") yields them;
\* each line is a sequence of tokens, "/" being the separator.  The last
\* line is the empty one after the final newline.
DistList ==
    << <<"linux", "/", "amd64">>,
       <<"linux", "/", "arm64">>,
       <<"windows", "/", "amd64">>,
       <<>> >>

\* goos / goarch / connect-back values a Build request may carry.
ReqOS == {"", "linux", "windows", "darwin"}
ReqArch == {"", "amd64", "arm64", "mips"}
ReqAddr == {"", "host.example:443"}

CachePathArg == "/cache"
cacheDescriptionFile == "description.json"
defaultConnectBack == "default.example:80"
InternalVersion == "v0"
GitDescribe == "v1-tag"

\* ------------------------------------------------------------- the data

\* type file struct: the zero value, and a value.
ZeroFile ==
    [Path |-> <<>>, Goos |-> "", Goarch |-> "", FileType |-> "",
     Hits |-> 0, Version |-> <<>>]

\* Go map operations on a TLA+ function.
MapHas(m, k) == k \in DOMAIN m

MapSet(m, k, v) == [x \in (DOMAIN m) \cup {k} |-> IF x = k THEN v ELSE m[x]]

MapDelete(m, k) == [x \in (DOMAIN m) \ {k} |-> m[x]]

EmptyMap == [x \in {} |-> ZeroFile]

\* cache[k] of a Go map: the zero value when k is absent.
MapGet(m, k) == IF MapHas(m, k) THEN m[k] ELSE ZeroFile

\* ------------------------------------------------- description.json

\* A record written without its hit counter.
EncodeFileNoHits(f) ==
    << <<"Path", <<"s", f.Path>> >>,
       <<"Goos", <<"s", f.Goos>> >>,
       <<"Goarch", <<"s", f.Goarch>> >>,
       <<"FileType", <<"s", f.FileType>> >>,
       <<"Version", <<"s", f.Version>> >> >>

\* A JSON value is tagged with its JSON type: <<"s", v>> a string, <<"n", v>>
\* a number.  json.Marshal of a file writes its exported fields in
\* declaration order under their Go names.
EncodeFile(f) ==
    << <<"Path", <<"s", f.Path>> >>,
       <<"Goos", <<"s", f.Goos>> >>,
       <<"Goarch", <<"s", f.Goarch>> >>,
       <<"FileType", <<"s", f.FileType>> >>,
       <<"Hits", <<"n", f.Hits>> >>,
       <<"Version", <<"s", f.Version>> >> >>

SortedKeys(m) == SelectSeq(NameOrder, LAMBDA k : k \in DOMAIN m)

\* json.Marshal(cache): one member per key, keys sorted.
Marshal(m) ==
    LET ks == SortedKeys(m)
    IN  [i \in 1..Len(ks) |-> <<ks[i], EncodeFile(m[ks[i]])>>]

\* Decoding one member of a JSON object into a file: a member of the wrong
\* JSON type leaves the field alone and is an UnmarshalTypeError; an unknown
\* member is skipped.
SetField(f, member) ==
    LET n == member[1]
        t == member[2][1]
        v == member[2][2]
    IN  CASE n = "Path" /\ t = "s" -> [file |-> [f EXCEPT !.Path = v], err |-> FALSE]
          [] n = "Goos" /\ t = "s" -> [file |-> [f EXCEPT !.Goos = v], err |-> FALSE]
          [] n = "Goarch" /\ t = "s" -> [file |-> [f EXCEPT !.Goarch = v], err |-> FALSE]
          [] n = "FileType" /\ t = "s" -> [file |-> [f EXCEPT !.FileType = v], err |-> FALSE]
          [] n = "Hits" /\ t = "n" -> [file |-> [f EXCEPT !.Hits = v], err |-> FALSE]
          [] n = "Version" /\ t = "s" -> [file |-> [f EXCEPT !.Version = v], err |-> FALSE]
          [] n \in {"Path", "Goos", "Goarch", "FileType", "Hits", "Version"} ->
                [file |-> f, err |-> TRUE]
          [] OTHER -> [file |-> f, err |-> FALSE]

RECURSIVE DecodeFile(_, _)
DecodeFile(members, acc) ==
    IF members = <<>> THEN acc
    ELSE LET r == SetField(acc.file, Head(members))
         IN  DecodeFile(Tail(members), [file |-> r.file, err |-> acc.err \/ r.err])

\* json.Unmarshal(contents, &cache) of a syntactically valid object: every
\* member is decoded into a fresh file and stored under its key; a type
\* error is remembered and decoding goes on.
RECURSIVE UnmarshalInto(_, _)
UnmarshalInto(doc, acc) ==
    IF doc = <<>> THEN acc
    ELSE LET d == DecodeFile(Head(doc)[2], [file |-> ZeroFile, err |-> FALSE])
         IN  UnmarshalInto(Tail(doc),
                [map |-> MapSet(acc.map, Head(doc)[1], d.file),
                 err |-> acc.err \/ d.err])

\* The file on disk: whether it exists, whether its text is valid JSON and
\* the members of its top-level object.  json.Unmarshal checks the syntax
\* of the whole text before it stores anything.
NoSnapshot == [exists |-> FALSE, syntax |-> TRUE, doc |-> <<>>]

SnapshotOf(m) == [exists |-> TRUE, syntax |-> TRUE, doc |-> Marshal(m)]

Unmarshal(snap, m) ==
    IF ~snap.syntax THEN [map |-> m, err |-> TRUE]
    ELSE UnmarshalInto(snap.doc, [map |-> m, err |-> FALSE])

\* ------------------------------------------------------ target catalog

\* bytes.Split(line, "/").
RECURSIVE SplitOn(_, _, _)
SplitOn(line, sep, cur) ==
    IF line = <<>> THEN <<cur>>
    ELSE IF Head(line) = sep THEN <<cur>> \o SplitOn(Tail(line), sep, <<>>)
    ELSE SplitOn(Tail(line), sep, Append(cur, Head(line)))

\* string(part) for the one-token parts the catalog keeps.
PartString(part) == IF Len(part) = 1 THEN part[1] ELSE ""

\* The loop of startBuildManager over the lines of the toolchain's list.
ParsePlatforms(lines) ==
    {PartString(SplitOn(lines[i], "/", <<>>)[1]) :
        i \in {j \in 1..Len(lines) : Len(SplitOn(lines[j], "/", <<>>)) = 2}}

ParseArchs(lines) ==
    {PartString(SplitOn(lines[i], "/", <<>>)[2]) :
        i \in {j \in 1..Len(lines) : Len(SplitOn(lines[j], "/", <<>>)) = 2}}

\* The os/arch pairs the toolchain lists: the pairs `go build` accepts.
ToolchainPairs ==
    {<<PartString(SplitOn(DistList[i], "/", <<>>)[1]),
       PartString(SplitOn(DistList[i], "/", <<>>)[2])>> :
        i \in {j \in 1..Len(DistList) : Len(SplitOn(DistList[j], "/", <<>>)) = 2}}

\* ------------------------------------------------------------ the state

VARIABLES
    cache,           \* var cache map[string]file
    Autocomplete,    \* var Autocomplete = trie.NewTrie(): the keys it holds
    validPlatforms,  \* var validPlatforms map[string]bool: the keys set true
    validArchs,      \* var validArchs map[string]bool
    cachePath,       \* var cachePath string
    webserverOn,     \* the package's webserverOn flag
    writer,          \* c sync.RWMutex: who holds (or is taking) the write side
    held,            \* ... and whether the readers have drained for it
    readers,         \* ... and who holds the read side
    disk,            \* the cache directory and description.json
    host,            \* runtime.GOOS, runtime.GOARCH
    pc,              \* where each goroutine stands
    req,             \* the arguments of each goroutine's call
    loc,             \* the local variables of each goroutine's call
    ret,             \* the last value a call returned
    crashed,         \* the runtime has thrown or a goroutine has panicked
    atLock,          \* history: cache, index and snapshot when the write lock was taken
    prevGet,         \* history: what each caller's previous Get returned
    saved,           \* history: the map the last writeCache() marshalled before a restart
    kill,            \* the run of the kill command: its line, terminal and requests sent
    ntlm             \* package client: ntlmProxyCreds and the last getNTLMAuthHeader

\* The state of the other packages: command kill and the NTLM proxy credentials.
others == <<kill, ntlm>>
globals == <<cache, Autocomplete, validPlatforms, validArchs, cachePath, webserverOn>>
mutex == <<writer, held, readers>>
history == <<atLock, prevGet, saved, kill, ntlm>>
vars == <<cache, Autocomplete, validPlatforms, validArchs, cachePath, webserverOn,
          writer, held, readers, disk, host, pc, req, loc, ret, crashed,
          atLock, prevGet, saved, kill, ntlm>>

\* An error is the token sequence of its message; nil is the empty one.
Nil == <<>>

\* The arguments of a call; connectBack is suppliedConnectBackAdress after
\* Build has defaulted it.
NoReq ==
    [op |-> "none", goos |-> "", goarch |-> "", addr |-> "", connectBack |-> "",
     name |-> "", shared |-> FALSE, key |-> "", filter |-> <<>>]

NoEnv == [GOOS |-> "", GOARCH |-> "", CC |-> "", CGO_ENABLED |-> ""]

NoLoc ==
    [f |-> ZeroFile, name |-> "", entry |-> ZeroFile, env |-> NoEnv,
     matching |-> EmptyMap, wrote |-> FALSE]

NoRet == [p |-> Main, op |-> "none", args |-> NoReq, err |-> Nil, val |-> <<>>]

NoHistory == [cache |-> EmptyMap, index |-> {}, snap |-> NoSnapshot]

NoPrev == [key |-> "", file |-> ZeroFile]

\* A record a previous run of the server left in description.json.
OldFile ==
    [Path |-> <<CachePathArg, "f1">>, Goos |-> "linux", Goarch |-> "amd64",
     FileType |-> "executable", Hits |-> 0, Version |-> <<GitDescribe>>]

\* description.json with a member of the wrong JSON type (Hits a string).
BadTypeDoc ==
    << <<"a", << <<"Path", <<"s", <<CachePathArg, "f1">> >> >>,
                 <<"Goos", <<"s", "linux">> >>,
                 <<"Goarch", <<"s", "amd64">> >>,
                 <<"FileType", <<"s", "executable">> >>,
                 <<"Hits", <<"s", "many">> >>,
                 <<"Version", <<"s", <<GitDescribe>> >> >> >> >> >>

\* What the server can find on disk when it starts.
MissingDir == [dir |-> "missing", snap |-> NoSnapshot, writable |-> TRUE]

FileInTheWay == [dir |-> "file", snap |-> NoSnapshot, writable |-> TRUE]

FreshDir == [dir |-> "dir", snap |-> NoSnapshot, writable |-> TRUE]

\* A directory in which description.json cannot be written.
FullDir == [dir |-> "dir", snap |-> NoSnapshot, writable |-> FALSE]

OldCache == [k \in {"a"} |-> OldFile]

UsedDir == [dir |-> "dir", snap |-> SnapshotOf(OldCache), writable |-> TRUE]

BadSyntaxDir ==
    [dir |-> "dir", snap |-> [exists |-> TRUE, syntax |-> FALSE, doc |-> <<>>],
     writable |-> TRUE]

BadTypeDir ==
    [dir |-> "dir", snap |-> [exists |-> TRUE, syntax |-> TRUE, doc |-> BadTypeDoc],
     writable |-> TRUE]

\* runtime.GOOS, runtime.GOARCH, and whether `git describe --tags` works there.
LinuxAmd64 == [os |-> "linux", arch |-> "amd64", git |-> TRUE]

\* The clients a kill line can match, and the state of a kill command
\* that has not run: its line (argument count, -y), whether its tty is a
\* *terminal.Terminal, the connections found, whether the terminal is in
\* raw mode, whether the prompt was written, the byte read, the
\* connections the loop has yet to visit, the requests sent to each
\* client, and the error returned.
Clients == {"c1", "c2", "c3"}

NoKill ==
    [pc |-> "k_idle", nargs |-> 1, y |-> FALSE, isTerm |-> FALSE, conns |-> {},
     raw |-> FALSE, prompted |-> FALSE, answer |-> "", left |-> {},
     sent |-> [c \in Clients |-> 0], err |-> Nil]

\* var ntlmProxyCreds string, and what the last getNTLMAuthHeader since it
\* was set got from parseNTLMCreds and returned.
NoNtlm ==
    [creds |-> <<>>, called |-> FALSE,
     parsed |-> [domain |-> <<>>, user |-> <<>>, pass |-> <<>>, err |-> Nil],
     header |-> <<>>, err |-> Nil]

\* The package-level initialisers of the build manager, before
\* startBuildManager has run.
InitManager(disks, hosts) ==
    /\ cache = EmptyMap
    /\ Autocomplete = {}
    /\ validPlatforms = {}
    /\ validArchs = {}
    /\ cachePath = ""
    /\ webserverOn = FALSE
    /\ writer = {}
    /\ held = FALSE
    /\ readers = {}
    /\ disk \in disks
    /\ host \in hosts
    /\ pc = [p \in Procs |-> IF p = Main THEN "s_lock" ELSE "idle"]
    /\ req = [p \in Procs |-> NoReq]
    /\ loc = [p \in Procs |-> NoLoc]
    /\ ret = NoRet
    /\ crashed = FALSE
    /\ atLock = NoHistory
    /\ prevGet = [p \in Callers |-> NoPrev]
    /\ saved = EmptyMap

InitWith(disks, hosts) ==
    /\ InitManager(disks, hosts)
    /\ kill = NoKill
    /\ ntlm = NoNtlm

Init == InitWith({MissingDir, FileInTheWay, FullDir, UsedDir}, {LinuxAmd64})

\* ------------------------------------------------------- sync.RWMutex

\* c.Lock(), first half: take the mutex's write side, which keeps new
\* readers out.
LockAnnounce(p, from, to) ==
    /\ pc[p] = from
    /\ writer = {}
    /\ writer' = {p}
    /\ pc' = [pc EXCEPT ![p] = to]
    /\ UNCHANGED <<globals, held, readers, disk, host, req, loc, crashed, history>> /\ ret' = NoRet

\* c.Lock(), second half: wait until the readers have left.
LockAcquire(p, from, to) ==
    /\ pc[p] = from
    /\ writer = {p}
    /\ readers = {}
    /\ held' = TRUE
    /\ atLock' = [cache |-> cache, index |-> Autocomplete, snap |-> disk.snap]
    /\ pc' = [pc EXCEPT ![p] = to]
    /\ UNCHANGED <<globals, writer, readers, disk, host, req, loc, crashed, prevGet, saved, others>> /\ ret' = NoRet

\* c.RLock(): blocked while a writer holds or waits for the lock.
RLock(p, from, to) ==
    /\ pc[p] = from
    /\ writer = {}
    /\ readers' = readers \cup {p}
    /\ pc' = [pc EXCEPT ![p] = to]
    /\ UNCHANGED <<globals, writer, held, disk, host, req, loc, crashed, history>> /\ ret' = NoRet

\* An unrecovered panic or a runtime throw ends the process.
Crash ==
    /\ crashed' = TRUE
    /\ pc' = [q \in Procs |-> "dead"]
    /\ ret' = NoRet

\* A return: the deferred c.Unlock() / c.RUnlock() of a goroutine that holds
\* the lock runs, and the caller of op(args) gets (val, err).
Return(p, op, args, to, err, val) ==
    /\ pc' = [pc EXCEPT ![p] = to]
    /\ ret' = [p |-> p, op |-> op, args |-> args, err |-> err, val |-> val]
    /\ req' = [req EXCEPT ![p] = NoReq]
    /\ loc' = [loc EXCEPT ![p] = NoLoc]
    /\ writer' = writer \ {p}
    /\ held' = IF writer = {p} THEN FALSE ELSE held
    /\ readers' = readers \ {p}
    /\ atLock' = IF writer = {p} THEN NoHistory ELSE atLock

\* ------------------------------------------------ the completion index

\* Autocomplete.Add(key) and Autocomplete.Remove(key) of pkg/trie.
TrieAdd(t, k) == t \cup {k}

TrieRemove(t, k) == t \ {k}

\* ------------------------------------------------------- writeCache

\* json.Marshal(cache), then os.WriteFile(filepath.Join(cachePath,
\* cacheDescriptionFile), content, 0700): the file of the cache directory is
\* replaced when the write succeeds; the error of a failed write is dropped.
WriteCacheDisk(d, dir, m) ==
    IF d.writable /\ dir = CachePathArg
    THEN [d EXCEPT !.snap = SnapshotOf(m)]
    ELSE d

\* ------------------------------------------------- startBuildManager

StartLock == LockAnnounce(Main, "s_lock", "s_wait")

StartLocked == LockAcquire(Main, "s_wait", "s_source")

\* os.Stat(clientSource) and the IsDir test.
StartSource ==
    /\ pc[Main] = "s_source"
    /\ \E ok \in BOOLEAN :
          IF ok
          THEN /\ pc' = [pc EXCEPT ![Main] = "s_list"]
               /\ UNCHANGED <<mutex, req, loc, atLock>> /\ ret' = NoRet
          ELSE Return(Main, "startBuildManager", NoReq, "s_failed", <<"not in {project_root}/bin">>, <<>>)
    /\ UNCHANGED <<globals, disk, host, crashed, prevGet, saved, others>>

\* `go tool dist list` and the loop that fills the two catalog maps.
StartList ==
    /\ pc[Main] = "s_list"
    /\ \E ok \in BOOLEAN :
          IF ok
          THEN /\ validPlatforms' = validPlatforms \cup ParsePlatforms(DistList)
               /\ validArchs' = validArchs \cup ParseArchs(DistList)
               /\ pc' = [pc EXCEPT ![Main] = "s_dir"]
               /\ UNCHANGED <<mutex, req, loc, atLock>> /\ ret' = NoRet
          ELSE /\ Return(Main, "startBuildManager", NoReq, "s_failed", <<"Unable to run the go compiler">>, <<>>)
               /\ UNCHANGED <<validPlatforms, validArchs>>
    /\ UNCHANGED <<cache, Autocomplete, cachePath, webserverOn, disk, host, crashed, prevGet, saved, others>>

\* os.Stat(cPath), os.Mkdir when it does not exist, os.Stat again, and
\* info.IsDir().  A Stat that fails for another reason than "not exist"
\* leaves info nil, and info.IsDir() panics.
StartDir ==
    /\ pc[Main] = "s_dir"
    /\ \E statOK \in BOOLEAN, mkdirOK \in BOOLEAN, restatOK \in BOOLEAN :
          CASE disk.dir = "missing" /\ ~mkdirOK ->
                  /\ Return(Main, "startBuildManager", NoReq, "s_failed", <<"mkdir ", CachePathArg>>, <<>>)
                  /\ UNCHANGED <<disk, crashed>>
            [] disk.dir = "missing" /\ mkdirOK /\ restatOK ->
                  /\ disk' = [disk EXCEPT !.dir = "dir"]
                  /\ pc' = [pc EXCEPT ![Main] = "s_probe"]
                  /\ UNCHANGED <<mutex, req, loc, atLock, crashed>> /\ ret' = NoRet
            [] disk.dir = "missing" /\ mkdirOK /\ ~restatOK ->
                  /\ disk' = [disk EXCEPT !.dir = "dir"]
                  /\ Crash
                  /\ UNCHANGED <<mutex, req, loc, atLock>>
            [] disk.dir # "missing" /\ ~statOK ->
                  /\ Crash
                  /\ UNCHANGED <<mutex, req, loc, atLock, disk>>
            [] disk.dir = "file" /\ statOK ->
                  /\ Return(Main, "startBuildManager", NoReq, "s_failed",
                            <<"Cache path '", CachePathArg,
                              "' already exists, but is a file instead of directory">>, <<>>)
                  /\ UNCHANGED <<disk, crashed>>
            [] disk.dir = "dir" /\ statOK ->
                  /\ pc' = [pc EXCEPT ![Main] = "s_probe"]
                  /\ UNCHANGED <<mutex, req, loc, atLock, disk, crashed>> /\ ret' = NoRet
    /\ UNCHANGED <<globals, host, prevGet, saved, others>>

\* The probe file: os.WriteFile then os.Remove of cPath/test.
StartProbe ==
    /\ pc[Main] = "s_probe"
    /\ \E writeOK \in BOOLEAN, removeOK \in BOOLEAN :
          CASE ~writeOK ->
                  Return(Main, "startBuildManager", NoReq, "s_failed", <<"Unable to write file into cache directory: ">>, <<>>)
            [] writeOK /\ ~removeOK ->
                  Return(Main, "startBuildManager", NoReq, "s_failed", <<"Unable to delete file in cache directory: ">>, <<>>)
            [] OTHER ->
                  /\ pc' = [pc EXCEPT ![Main] = "s_load"]
                  /\ UNCHANGED <<mutex, req, loc, atLock>> /\ ret' = NoRet
    /\ UNCHANGED <<globals, disk, host, crashed, prevGet, saved, others>>

\* os.ReadFile of description.json, json.Unmarshal into cache, and the
\* Autocomplete.Add of every key when it decoded without error.
LoadCache(snap, readOK) ==
    IF ~(snap.exists /\ readOK) THEN [map |-> cache, index |-> Autocomplete]
    ELSE LET u == Unmarshal(snap, cache)
         IN  [map |-> u.map,
              index |-> IF u.err THEN Autocomplete ELSE Autocomplete \cup DOMAIN u.map]

StartLoad ==
    /\ pc[Main] = "s_load"
    /\ \E readOK \in BOOLEAN :
          /\ cache' = LoadCache(disk.snap, readOK).map
          /\ Autocomplete' = LoadCache(disk.snap, readOK).index
    /\ pc' = [pc EXCEPT ![Main] = "s_path"]
    /\ UNCHANGED <<validPlatforms, validArchs, cachePath, webserverOn, mutex, disk,
                   host, req, loc, crashed, history>>
    /\ ret' = NoRet

\* cachePath = cPath; return nil.
StartReturn ==
    /\ pc[Main] = "s_path"
    /\ cachePath' = CachePathArg
    /\ Return(Main, "startBuildManager", NoReq, "s_up", Nil, <<>>)
    /\ UNCHANGED <<cache, Autocomplete, validPlatforms, validArchs, webserverOn,
                   disk, host, crashed, prevGet, saved, others>>

\* The caller of startBuildManager turns the delivery surface on once the
\* build manager has started.
StartWebserver ==
    /\ pc[Main] = "s_up"
    /\ webserverOn' = TRUE
    /\ pc' = [pc EXCEPT ![Main] = "serving"]
    /\ UNCHANGED <<cache, Autocomplete, validPlatforms, validArchs, cachePath,
                   mutex, disk, host, req, loc, crashed, history>>
    /\ ret' = NoRet

Startup ==
    \/ StartLock
    \/ StartLocked
    \/ StartSource
    \/ StartList
    \/ StartDir
    \/ StartProbe
    \/ StartLoad
    \/ StartReturn
    \/ StartWebserver

\* --------------------------------------------------------------- Build

BuildRequest(goos, goarch, addr, name, shared) ==
    [goos |-> goos, goarch |-> goarch, addr |-> addr, name |-> name, shared |-> shared]

\* Every request over the input domains.
AllRequests ==
    {BuildRequest(goos, goarch, addr, name, shared) :
        goos \in ReqOS, goarch \in ReqArch, addr \in ReqAddr,
        name \in SuppliedNames \cup {""}, shared \in BOOLEAN}

\* The requests the concurrent callers issue: an executable for an explicit
\* OS under a supplied name, a shared object for an explicit architecture
\* under a random name, a pair the toolchain does not list, and an OS and an
\* architecture outside the catalog.
CallerRequests ==
    {BuildRequest("windows", "", "", "a", FALSE),
     BuildRequest("", "arm64", "host.example:443", "", TRUE),
     BuildRequest("windows", "arm64", "", "a", FALSE),
     BuildRequest("darwin", "", "", "a", FALSE),
     BuildRequest("", "mips", "", "", FALSE)}

\* The validation without its check of the operating system.
ValidateArchOnly(on, archs, platforms, goos, goarch) ==
    IF ~on THEN <<"Web server is not enabled.">>
    ELSE IF goarch # "" /\ goarch \notin archs
         THEN <<"GOARCH supplied is not valid: ", goarch>>
    ELSE Nil

\* Lines 41-51: the delivery surface must be on, then goarch, then goos must
\* be empty or a key of its catalog map.  The error, or Nil.
ValidateBuild(on, archs, platforms, goos, goarch) ==
    IF ~on THEN <<"Web server is not enabled.">>
    ELSE IF goarch # "" /\ goarch \notin archs
         THEN <<"GOARCH supplied is not valid: ", goarch>>
    ELSE IF goos # "" /\ goos \notin platforms
         THEN <<"GOOS supplied is not valid: ", goos>>
    ELSE Nil

\* The address used as supplied, with no default.
ResolveAddrAsGiven(addr) == addr

\* Lines 53-55.
ResolveAddr(addr) == IF addr = "" THEN defaultConnectBack ELSE addr

\* Lines 82-112: the record of the artifact about to be built.
AssembleFile(h, dir, goos, goarch, shared, filename) ==
    LET os == IF goos # "" THEN goos ELSE h.os
        arch == IF goarch # "" THEN goarch ELSE h.arch
        path == <<dir, filename>>
    IN  [Path |-> IF ~shared THEN path
                  ELSE IF os # "windows" THEN Append(path, ".so")
                  ELSE Append(path, ".dll"),
         Goos |-> os,
         Goarch |-> arch,
         FileType |-> IF shared THEN "shared-object" ELSE "executable",
         Hits |-> 0,
         Version |-> IF h.git THEN <<GitDescribe>> ELSE <<InternalVersion, " (guess)">>]

\* The cross compiler chosen on every amd64 host that is not Windows.
AssembleEnvAmd64Host(h, f, shared) ==
    << <<"GOOS", f.Goos>>, <<"GOARCH", f.Goarch>> >>
    \o (IF shared
        THEN << <<"CC", IF h.os # "windows" /\ h.arch = "amd64"
                           /\ f.Goos = "windows" /\ f.Goarch = "amd64"
                        THEN "x86_64-w64-mingw32-gcc" ELSE "">> >>
        ELSE <<>>)
    \o << <<"CGO_ENABLED", IF shared THEN "1" ELSE "0">> >>

\* Lines 119-136: what Build appends to the compiler's environment.
AssembleEnv(h, f, shared) ==
    << <<"GOOS", f.Goos>>, <<"GOARCH", f.Goarch>> >>
    \o (IF shared
        THEN << <<"CC", IF h.os = "linux" /\ f.Goos = "windows" /\ f.Goarch = "amd64"
                        THEN "x86_64-w64-mingw32-gcc" ELSE "">> >>
        ELSE <<>>)
    \o << <<"CGO_ENABLED", IF shared THEN "1" ELSE "0">> >>

\* Line 151.
BuildURL(addr, name) == <<"http://", addr, "/", name>>

\* Lines 40-59: the checks and defaults before the lock.
BuildCall(p, requests) ==
    /\ pc[p] = "idle"
    /\ \E r \in requests :
          LET err == ValidateBuild(webserverOn, validArchs, validPlatforms, r.goos, r.goarch)
              args == [NoReq EXCEPT !.op = "Build", !.goos = r.goos, !.goarch = r.goarch,
                                    !.addr = r.addr, !.connectBack = ResolveAddr(r.addr),
                                    !.name = r.name, !.shared = r.shared]
          IN  IF err # Nil
              THEN Return(p, "Build", args, "idle", err, <<>>)
              ELSE /\ req' = [req EXCEPT ![p] = args]
                   /\ pc' = [pc EXCEPT ![p] = "b_lock"]
                   /\ ret' = NoRet
                   /\ UNCHANGED <<mutex, loc, atLock>>
    /\ UNCHANGED <<globals, disk, host, crashed, prevGet, saved, others>>

\* Build taking the read side of the lock instead of the write side.
BuildLockShared(p) == RLock(p, "b_lock", "b_name")

BuildLock(p) == LockAnnounce(p, "b_lock", "b_wait")

BuildLocked(p) == LockAcquire(p, "b_wait", "b_name")

\* Line 78: _, ok := cache[name].

\* A collision check that never finds the name.
NameNeverInUse(m, name) == FALSE

\* Line 78: _, ok := cache[name].
NameInUse(m, name) == MapHas(m, name)

\* Lines 64-136 under the lock: the random filename, the resolved name, the
\* collision check, the record and the compiler's environment; the step
\* ends with the compiler started (line 138).
BuildPrepare(p) ==
    /\ pc[p] = "b_name"
    /\ \E fileOK \in BOOLEAN, filename \in FileNames, nameOK \in BOOLEAN,
          random \in RandomNames :
          LET name == IF req[p].name = "" THEN random ELSE req[p].name
              f == AssembleFile(host, cachePath, req[p].goos, req[p].goarch,
                                req[p].shared, filename)
          IN  CASE ~fileOK ->
                      Return(p, "Build", req[p], "idle", <<"rand.Read">>, <<>>)
                [] fileOK /\ req[p].name = "" /\ ~nameOK ->
                      Return(p, "Build", req[p], "idle", <<"rand.Read">>, <<>>)
                [] fileOK /\ (req[p].name # "" \/ nameOK) /\ NameInUse(cache, name) ->
                      Return(p, "Build", req[p], "idle", <<"This link name is already in use">>, <<>>)
                [] OTHER ->
                      /\ loc' = [loc EXCEPT ![p] =
                                   [NoLoc EXCEPT !.f = f, !.name = name,
                                                 !.env = AssembleEnv(host, f, req[p].shared)]]
                      /\ pc' = [pc EXCEPT ![p] = "b_compile"]
                      /\ ret' = NoRet
                      /\ UNCHANGED <<mutex, req, atLock>>
    /\ UNCHANGED <<globals, disk, host, crashed, prevGet, saved, others>>

\* A compiler failure that leaves the record of the failed build in the map.
BuildCompileDirty(p) ==
    /\ pc[p] = "b_compile"
    /\ \E ok \in BOOLEAN :
          IF ok /\ <<loc[p].f.Goos, loc[p].f.Goarch>> \in ToolchainPairs
          THEN /\ pc' = [pc EXCEPT ![p] = "b_commit"]
               /\ ret' = NoRet
               /\ cache' = cache
               /\ UNCHANGED <<mutex, req, loc, atLock>>
          ELSE /\ Return(p, "Build", req[p], "idle", <<"Error: ", "exit status 1">>, <<>>)
               /\ cache' = MapSet(cache, loc[p].name, loc[p].f)
    /\ UNCHANGED <<Autocomplete, validPlatforms, validArchs, cachePath, webserverOn,
                   disk, host, crashed, prevGet, saved, others>>

\* Line 138: cmd.CombinedOutput() returns.  The toolchain rejects a pair
\* that is not on its list; any build can fail.
BuildCompile(p) ==
    /\ pc[p] = "b_compile"
    /\ \E ok \in BOOLEAN :
          IF ok /\ <<loc[p].f.Goos, loc[p].f.Goarch>> \in ToolchainPairs
          THEN /\ pc' = [pc EXCEPT ![p] = "b_commit"]
               /\ ret' = NoRet
               /\ UNCHANGED <<mutex, req, loc, atLock>>
          ELSE Return(p, "Build", req[p], "idle", <<"Error: ", "exit status 1">>, <<>>)
    /\ UNCHANGED <<globals, disk, host, crashed, prevGet, saved, others>>

\* The record stored before its path is filled in.
BuildCommitPartial(p) ==
    /\ pc[p] = "b_commit"
    /\ cache' = MapSet(cache, loc[p].name, [loc[p].f EXCEPT !.Path = <<>>])
    /\ pc' = [pc EXCEPT ![p] = "b_add"]
    /\ ret' = NoRet
    /\ UNCHANGED <<Autocomplete, validPlatforms, validArchs, cachePath, webserverOn,
                   mutex, disk, host, req, loc, crashed, history>>

\* Line 143: cache[name] = f.
BuildCommit(p) ==
    /\ pc[p] = "b_commit"
    /\ cache' = MapSet(cache, loc[p].name, loc[p].f)
    /\ pc' = [pc EXCEPT ![p] = "b_add"]
    /\ ret' = NoRet
    /\ UNCHANGED <<Autocomplete, validPlatforms, validArchs, cachePath, webserverOn,
                   mutex, disk, host, req, loc, crashed, history>>

\* Line 147: Autocomplete.Add(name).
BuildAdd(p) ==
    /\ pc[p] = "b_add"
    /\ Autocomplete' = TrieAdd(Autocomplete, loc[p].name)
    /\ pc' = [pc EXCEPT ![p] = "b_persist"]
    /\ ret' = NoRet
    /\ UNCHANGED <<cache, validPlatforms, validArchs, cachePath, webserverOn,
                   mutex, disk, host, req, loc, crashed, history>>

\* The snapshot written from the map as it was before the commit.
BuildPersistStale(p) ==
    /\ pc[p] = "b_persist"
    /\ disk' = WriteCacheDisk(disk, cachePath, atLock.cache)
    /\ loc' = [loc EXCEPT ![p].wrote = disk.writable /\ cachePath = CachePathArg]
    /\ pc' = [pc EXCEPT ![p] = "b_ret"]
    /\ ret' = NoRet
    /\ UNCHANGED <<globals, mutex, host, req, crashed, history>>

\* Line 149: writeCache().
BuildPersist(p) ==
    /\ pc[p] = "b_persist"
    /\ disk' = WriteCacheDisk(disk, cachePath, cache)
    /\ loc' = [loc EXCEPT ![p].wrote = disk.writable /\ cachePath = CachePathArg]
    /\ pc' = [pc EXCEPT ![p] = "b_ret"]
    /\ ret' = NoRet
    /\ UNCHANGED <<globals, mutex, host, req, crashed, history>>

\* Line 151 and the deferred c.Unlock().
BuildReturn(p) ==
    /\ pc[p] = "b_ret"
    /\ Return(p, "Build", req[p], "idle", Nil, BuildURL(req[p].connectBack, loc[p].name))
    /\ UNCHANGED <<globals, disk, host, crashed, prevGet, saved, others>>

Build(p, requests) ==
    \/ BuildCall(p, requests)
    \/ BuildLock(p)
    \/ BuildLocked(p)
    \/ BuildPrepare(p)
    \/ BuildCompile(p)
    \/ BuildCommit(p)
    \/ BuildAdd(p)
    \/ BuildPersist(p)
    \/ BuildReturn(p)

\* ----------------------------------------------------------------- Get

GetCall(p, cap) ==
    /\ pc[p] = "idle"
    /\ \E key \in Names :
          /\ MapGet(cache, key).Hits < cap
          /\ req' = [req EXCEPT ![p] = [NoReq EXCEPT !.op = "Get", !.key = key]]
    /\ pc' = [pc EXCEPT ![p] = "g_rlock"]
    /\ ret' = NoRet
    /\ UNCHANGED <<globals, mutex, disk, host, loc, crashed, history>>

GetRLock(p) == RLock(p, "g_rlock", "g_read")

\* Lines 158-161: cacheEntry, ok := cache[key].
GetRead(p) ==
    /\ pc[p] = "g_read"
    /\ IF MapHas(cache, req[p].key)
       THEN /\ loc' = [loc EXCEPT ![p].entry = cache[req[p].key]]
            /\ pc' = [pc EXCEPT ![p] = "g_store"]
            /\ ret' = NoRet
            /\ UNCHANGED <<mutex, req, atLock>>
       ELSE Return(p, "Get", req[p], "idle", <<"Unable to find cache entry: ", req[p].key>>, ZeroFile)
    /\ UNCHANGED <<globals, disk, host, crashed, prevGet, saved, others>>

\* Line 163.
BumpHits(entry) == [entry EXCEPT !.Hits = @ + 1]

\* Lines 163-165: cacheEntry.Hits++ ; cache[key] = cacheEntry, under the
\* read lock.
GetStore(p) ==
    /\ pc[p] = "g_store"
    /\ loc' = [loc EXCEPT ![p].entry = BumpHits(loc[p].entry)]
    /\ cache' = MapSet(cache, req[p].key, BumpHits(loc[p].entry))
    /\ pc' = [pc EXCEPT ![p] = "g_ret"]
    /\ ret' = NoRet
    /\ UNCHANGED <<Autocomplete, validPlatforms, validArchs, cachePath, webserverOn,
                   mutex, disk, host, req, crashed, history>>

\* The positions at which a goroutine's next instruction reads or writes the
\* cache map.
MapReaders == {"b_name", "g_read", "l_scan", "d_check"}
MapWriters == {"s_load", "b_commit", "g_store", "d_delete"}

\* The map write of line 165 overlapping another goroutine's map access:
\* the runtime detects it ("concurrent map writes", "concurrent map read and
\* map write") and throws.
GetStoreThrow(p) ==
    /\ pc[p] = "g_store"
    /\ \E q \in Procs \ {p} : pc[q] \in MapReaders \cup MapWriters
    /\ Crash
    /\ UNCHANGED <<globals, mutex, disk, host, req, loc, history>>

\* Line 167 and the deferred c.RUnlock().  `track` keeps the history of the
\* caller's previous Get.
GetReturn(p, track) ==
    /\ pc[p] = "g_ret"
    /\ Return(p, "Get", req[p], "idle", Nil, loc[p].entry)
    /\ prevGet' = IF track
                  THEN [prevGet EXCEPT ![p] = [key |-> req[p].key, file |-> loc[p].entry]]
                  ELSE prevGet
    /\ UNCHANGED <<globals, disk, host, crashed, saved, others>>

Get(p, track, cap) ==
    \/ GetCall(p, cap)
    \/ GetRLock(p)
    \/ GetRead(p)
    \/ GetStore(p)
    \/ GetStoreThrow(p)
    \/ GetReturn(p, track)

\* ---------------------------------------------------------------- List

\* The characters of the strings that List matches a pattern against.
Chars(str) ==
    CASE str = "a" -> <<"a">>
      [] str = "r" -> <<"r">>
      [] str = "linux" -> <<"l", "i", "n", "u", "x">>
      [] str = "windows" -> <<"w", "i", "n", "d", "o", "w", "s">>
      [] str = "amd64" -> <<"a", "m", "d", "6", "4">>
      [] str = "arm64" -> <<"a", "r", "m", "6", "4">>
      [] OTHER -> <<>>

\* The filters a List call may carry, as sequences of pattern characters.
Filters ==
    {<<>>, <<"a">>, <<"a", "*">>, <<"w", "?", "n", "*">>, <<"[", "l", "w", "]", "i", "*">>,
     <<"z">>, <<"[", "a">>}

\* The filters the concurrent callers use: a pattern that matches keys and
\* architectures, and a malformed one.
CallerFilters == {<<"a", "*">>, <<"[", "a">>}

\* Position of the "]" that closes the class opened at pat[1], 0 when there
\* is none: a class holds at least one character, and a "]" right after the
\* "[" is ErrBadPattern.
ClassEnd(pat) ==
    LET ends == {i \in 3..Len(pat) : pat[i] = "]"}
    IN  IF ends = {} \/ pat[2] = "]" THEN 0
        ELSE CHOOSE i \in ends : \A j \in ends : i <= j

\* filepath.Match reports ErrBadPattern for a pattern with an unclosed class.
RECURSIVE BadPattern(_)
BadPattern(pat) ==
    IF pat = <<>> THEN FALSE
    ELSE IF Head(pat) = "[" THEN
            \/ ClassEnd(pat) = 0
            \/ BadPattern(SubSeq(pat, ClassEnd(pat) + 1, Len(pat)))
    ELSE BadPattern(Tail(pat))

\* filepath.Match(pattern, name) for a well-formed pattern: "*" matches any
\* run of non-separator characters, "?" one of them, a class one of its
\* characters, any other character itself.
RECURSIVE GlobMatch(_, _)
GlobMatch(pat, str) ==
    IF pat = <<>> THEN str = <<>>
    ELSE CASE Head(pat) = "*" ->
                \/ GlobMatch(Tail(pat), str)
                \/ str # <<>> /\ Head(str) # "/" /\ GlobMatch(pat, Tail(str))
           [] Head(pat) = "?" ->
                str # <<>> /\ Head(str) # "/" /\ GlobMatch(Tail(pat), Tail(str))
           [] Head(pat) = "[" ->
                /\ str # <<>>
                /\ Head(str) \in {pat[i] : i \in 2..(ClassEnd(pat) - 1)}
                /\ GlobMatch(SubSeq(pat, ClassEnd(pat) + 1, Len(pat)), Tail(str))
           [] OTHER ->
                str # <<>> /\ Head(str) = Head(pat) /\ GlobMatch(Tail(pat), Tail(str))

Match(pat, str) == ~BadPattern(pat) /\ GlobMatch(pat, Chars(str))

\* The loop without its test of the architecture.
MatchingNoArch(m, filter) ==
    [id \in {k \in DOMAIN m :
                \/ filter = <<>>
                \/ Match(filter, k)
                \/ Match(filter, m[k].Goos)} |-> m[id]]

\* Lines 181-203: the records the loop copies into matchingFiles.
Matching(m, filter) ==
    [id \in {k \in DOMAIN m :
                \/ filter = <<>>
                \/ Match(filter, k)
                \/ Match(filter, m[k].Goos)
                \/ Match(filter, m[k].Goarch)} |-> m[id]]

\* Lines 171-176: the filter is checked before the lock is taken.
ListCall(p, filters) ==
    /\ pc[p] = "idle"
    /\ \E filter \in filters :
          IF BadPattern(filter)
          THEN Return(p, "List", [NoReq EXCEPT !.op = "List", !.filter = filter], "idle",
                      <<"Filter is not well formed">>, EmptyMap)
          ELSE /\ req' = [req EXCEPT ![p] = [NoReq EXCEPT !.op = "List", !.filter = filter]]
               /\ pc' = [pc EXCEPT ![p] = "l_rlock"]
               /\ ret' = NoRet
               /\ UNCHANGED <<mutex, loc, atLock>>
    /\ UNCHANGED <<globals, disk, host, crashed, prevGet, saved, others>>

ListRLock(p) == RLock(p, "l_rlock", "l_scan")

ListScan(p) ==
    /\ pc[p] = "l_scan"
    /\ loc' = [loc EXCEPT ![p].matching = Matching(cache, req[p].filter)]
    /\ pc' = [pc EXCEPT ![p] = "l_ret"]
    /\ ret' = NoRet
    /\ UNCHANGED <<globals, mutex, disk, host, req, crashed, history>>

\* Line 205 and the deferred c.RUnlock().
ListReturn(p) ==
    /\ pc[p] = "l_ret"
    /\ Return(p, "List", req[p], "idle", Nil, loc[p].matching)
    /\ UNCHANGED <<globals, disk, host, crashed, prevGet, saved, others>>

List(p, filters) ==
    \/ ListCall(p, filters)
    \/ ListRLock(p)
    \/ ListScan(p)
    \/ ListReturn(p)

\* -------------------------------------------------------------- Delete

DeleteCall(p) ==
    /\ pc[p] = "idle"
    /\ \E key \in Names :
          req' = [req EXCEPT ![p] = [NoReq EXCEPT !.op = "Delete", !.key = key]]
    /\ pc' = [pc EXCEPT ![p] = "d_lock"]
    /\ ret' = NoRet
    /\ UNCHANGED <<globals, mutex, disk, host, loc, crashed, history>>

DeleteLock(p) == LockAnnounce(p, "d_lock", "d_wait")

DeleteLocked(p) == LockAcquire(p, "d_wait", "d_check")

\* The artifact file removed first, and its failure returned before the
\* map is touched.
DeleteCheckFileFirst(p) ==
    /\ pc[p] = "d_check"
    /\ \E ok \in BOOLEAN :
          IF MapHas(cache, req[p].key) /\ ok
          THEN /\ loc' = [loc EXCEPT ![p].entry = cache[req[p].key]]
               /\ pc' = [pc EXCEPT ![p] = "d_delete"]
               /\ ret' = NoRet
               /\ UNCHANGED <<mutex, req, atLock>>
          ELSE IF MapHas(cache, req[p].key)
          THEN Return(p, "Delete", req[p], "idle", <<"remove ">> \o cache[req[p].key].Path, <<>>)
          ELSE Return(p, "Delete", req[p], "idle", <<"Unable to find cache entry: ", req[p].key>>, <<>>)
    /\ UNCHANGED <<globals, disk, host, crashed, prevGet, saved, others>>

\* Lines 212-215.
DeleteCheck(p) ==
    /\ pc[p] = "d_check"
    /\ IF MapHas(cache, req[p].key)
       THEN /\ loc' = [loc EXCEPT ![p].entry = cache[req[p].key]]
            /\ pc' = [pc EXCEPT ![p] = "d_delete"]
            /\ ret' = NoRet
            /\ UNCHANGED <<mutex, req, atLock>>
       ELSE Return(p, "Delete", req[p], "idle", <<"Unable to find cache entry: ", req[p].key>>, <<>>)
    /\ UNCHANGED <<globals, disk, host, crashed, prevGet, saved, others>>

\* Line 217: delete(cache, key).
DeleteRemove(p) ==
    /\ pc[p] = "d_delete"
    /\ cache' = MapDelete(cache, req[p].key)
    /\ prevGet' = [q \in Callers |->
                    IF prevGet[q].key = req[p].key THEN NoPrev ELSE prevGet[q]]
    /\ pc' = [pc EXCEPT ![p] = "d_persist"]
    /\ ret' = NoRet
    /\ UNCHANGED <<Autocomplete, validPlatforms, validArchs, cachePath, webserverOn,
                   mutex, disk, host, req, loc, crashed, atLock, saved, others>>

\* Line 219: writeCache().
DeletePersist(p) ==
    /\ pc[p] = "d_persist"
    /\ disk' = WriteCacheDisk(disk, cachePath, cache)
    /\ loc' = [loc EXCEPT ![p].wrote = disk.writable /\ cachePath = CachePathArg]
    /\ pc' = [pc EXCEPT ![p] = "d_index"]
    /\ ret' = NoRet
    /\ UNCHANGED <<globals, mutex, host, req, crashed, history>>

\* Line 221: Autocomplete.Remove(key).
DeleteIndex(p) ==
    /\ pc[p] = "d_index"
    /\ Autocomplete' = TrieRemove(Autocomplete, req[p].key)
    /\ pc' = [pc EXCEPT ![p] = "d_file"]
    /\ ret' = NoRet
    /\ UNCHANGED <<cache, validPlatforms, validArchs, cachePath, webserverOn,
                   mutex, disk, host, req, loc, crashed, history>>

\* Line 223: return os.Remove(cacheEntry.Path), and the deferred c.Unlock().
DeleteFile(p) ==
    /\ pc[p] = "d_file"
    /\ \E ok \in BOOLEAN :
          Return(p, "Delete", req[p], "idle",
                 IF ok THEN Nil ELSE <<"remove ">> \o loc[p].entry.Path, <<>>)
    /\ UNCHANGED <<globals, disk, host, crashed, prevGet, saved, others>>

Delete(p) ==
    \/ DeleteCall(p)
    \/ DeleteLock(p)
    \/ DeleteLocked(p)
    \/ DeleteCheck(p)
    \/ DeleteRemove(p)
    \/ DeletePersist(p)
    \/ DeleteIndex(p)
    \/ DeleteFile(p)

Next ==
    \/ Startup
    \/ \E p \in Callers : Build(p, CallerRequests)
    \/ \E p \in Callers : Get(p, FALSE, MaxHits)
    \/ \E p \in Callers : List(p, CallerFilters)
    \/ \E p \in Callers : Delete(p)

Spec == Init /\ [][Next]_vars

\* Callers that only look records up and evict them, over the cache a
\* previous run left, with the history of each caller's previous Get kept.
InitLookups == InitWith({UsedDir}, {LinuxAmd64})

NextLookups ==
    \/ Startup
    \/ \E p \in Callers : Get(p, TRUE, MaxHitsTracked)
    \/ \E p \in Callers : Delete(p)

SpecLookups == InitLookups /\ [][NextLookups]_vars

\* ------------------------------------------------- persist and restart

\* Records that differ from one another in every field.
NewFile ==
    [Path |-> <<CachePathArg, "f2", ".dll">>, Goos |-> "windows", Goarch |-> "amd64",
     FileType |-> "shared-object", Hits |-> 2, Version |-> <<InternalVersion, " (guess)">>]

SavedFiles == {OldFile, NewFile, [OldFile EXCEPT !.Goarch = "arm64", !.Hits = 1]}

\* Every non-empty map of the names to those records.
SavedMaps == UNION {[ks -> SavedFiles] : ks \in (SUBSET Names) \ {{}}}

\* A server that has started and holds map m, over a cache directory that
\* is fresh or holds an older description.json.
InitRunning(maps, disks) ==
    /\ cache \in maps
    /\ Autocomplete = DOMAIN cache
    /\ validPlatforms = ParsePlatforms(DistList)
    /\ validArchs = ParseArchs(DistList)
    /\ cachePath = CachePathArg
    /\ webserverOn = TRUE
    /\ writer = {}
    /\ held = FALSE
    /\ readers = {}
    /\ disk \in disks
    /\ host = LinuxAmd64
    /\ pc = [p \in Procs |-> IF p = Main THEN "serving" ELSE "idle"]
    /\ req = [p \in Procs |-> NoReq]
    /\ loc = [p \in Procs |-> NoLoc]
    /\ ret = NoRet
    /\ crashed = FALSE
    /\ atLock = NoHistory
    /\ prevGet = [p \in Callers |-> NoPrev]
    /\ saved = EmptyMap
    /\ kill = NoKill
    /\ ntlm = NoNtlm

\* writeCache(), lines 226-232, on the map as it stands.
WriteCache ==
    /\ pc[Main] = "serving"
    /\ saved # cache
    /\ disk' = WriteCacheDisk(disk, cachePath, cache)
    /\ saved' = cache
    /\ ret' = NoRet
    /\ UNCHANGED <<globals, mutex, host, pc, req, loc, crashed, atLock, prevGet, others>>

\* The process exits after its writeCache() and is started again: the
\* package variables are initialised anew (lines 29-38), the disk stays.
Restart ==
    /\ pc[Main] = "serving"
    /\ saved = cache
    /\ cache' = EmptyMap
    /\ Autocomplete' = {}
    /\ validPlatforms' = {}
    /\ validArchs' = {}
    /\ cachePath' = ""
    /\ webserverOn' = FALSE
    /\ pc' = [pc EXCEPT ![Main] = "s_lock"]
    /\ ret' = NoRet
    /\ UNCHANGED <<mutex, disk, host, req, loc, crashed, history>>

InitRoundTrip == InitRunning(SavedMaps, {FreshDir, UsedDir})

NextRoundTrip ==
    \/ WriteCache
    \/ Restart
    \/ Startup

SpecRoundTrip == InitRoundTrip /\ [][NextRoundTrip]_vars

\* ---------------------------------------------------------- listing

\* Filters beyond those of the concurrent callers: a star in front, a
\* lone star, a class after a literal that cannot match.
ListFilters ==
    Filters \cup {<<"*", "6", "4">>, <<"*">>, <<"r">>, <<"z", "[">>, <<"[", "]">>,
                  <<"[", "]", "a", "]">>}

InitList == InitRunning(SavedMaps, {FreshDir})

NextList == \E p \in Callers : List(p, ListFilters)

SpecList == InitList /\ [][NextList]_vars

\* ---------------------------------------------------------- starting

\* Every cache directory a start can find, with lookups and listings
\* issued while and after the server starts.
InitStartup ==
    InitWith({MissingDir, FileInTheWay, FreshDir, FullDir, UsedDir, BadSyntaxDir, BadTypeDir},
             {LinuxAmd64})

NextStartup ==
    \/ Startup
    \/ \E p \in Callers : Get(p, FALSE, MaxHits)
    \/ \E p \in Callers : List(p, CallerFilters)

SpecStartup == InitStartup /\ [][NextStartup]_vars

\* ------------------------------------------- the compiler's environment

\* The hosts the server can run on: runtime.GOOS and runtime.GOARCH.
Hosts ==
    {[os |-> o, arch |-> a, git |-> TRUE] :
        o \in {"linux", "darwin", "windows"}, a \in {"amd64", "arm64"}}

\* Builds of every target the catalog lets through, as executable and as
\* shared object.
EnvRequests ==
    {BuildRequest(goos, goarch, "", "a", shared) :
        goos \in {"", "linux", "windows"}, goarch \in {"", "amd64", "arm64"},
        shared \in BOOLEAN}

InitEnv == InitWith({FreshDir}, Hosts)

NextEnv ==
    \/ Startup
    \/ \E p \in Callers : Build(p, EnvRequests)

SpecEnv == InitEnv /\ [][NextEnv]_vars

\* The value the compiler's environment gives a variable Build appended,
\* "(inherited)" for one Build did not append.
EnvValue(env, name) ==
    LET at == {i \in 1..Len(env) : env[i][1] = name}
    IN  IF at = {} THEN "(inherited)"
        ELSE env[CHOOSE i \in at : \A j \in at : j <= i][2]

\* ------------------------------------------------------ the kill command

\* The bytes the operator can answer the prompt with.
Answers == {"y", "Y", "n", "N", "x", "nl"}

\* A confirmation that takes anything but n/N for a yes.
ConfirmedUnlessNo(b) == b \notin {"n", "N"}

\* Line 52: b[0] == 'y' || b[0] == 'Y'.
Confirmed(b) == b = "y" \/ b = "Y"

\* Lines 19-32: the argument count, user.SearchClients, the empty result,
\* and the -y flag.
KillRun ==
    /\ kill.pc = "k_start"
    /\ \E found \in SUBSET Clients, searchOK \in BOOLEAN :
          kill' = IF kill.nargs # 1 THEN [kill EXCEPT !.pc = "k_done", !.err = <<"kill <remote_id>">>]
                  ELSE IF ~searchOK THEN [kill EXCEPT !.pc = "k_done", !.err = <<"SearchClients">>]
                  ELSE IF found = {} THEN [kill EXCEPT !.pc = "k_done", !.err = <<"No clients matched">>]
                  ELSE [kill EXCEPT !.conns = found, !.left = found,
                                    !.pc = IF kill.y THEN "k_send" ELSE "k_prompt"]
    /\ UNCHANGED <<globals, mutex, disk, host, pc, req, loc, ret, crashed,
                   atLock, prevGet, saved, ntlm>>

\* Lines 34-38: the prompt, and EnableRaw when the tty is a terminal.
KillPrompt ==
    /\ kill.pc = "k_prompt"
    /\ kill' = [kill EXCEPT !.prompted = TRUE, !.raw = kill.isTerm, !.pc = "k_read"]
    /\ UNCHANGED <<globals, mutex, disk, host, pc, req, loc, ret, crashed,
                   atLock, prevGet, saved, ntlm>>

\* Lines 40-54: the one-byte read, DisableRaw on both branches, and the
\* test of the answer.
KillRead ==
    /\ kill.pc = "k_read"
    /\ \E readOK \in BOOLEAN, b \in Answers :
          kill' = IF ~readOK
                  THEN [kill EXCEPT !.raw = FALSE, !.pc = "k_done", !.err = <<"read">>]
                  ELSE IF ~Confirmed(b)
                  THEN [kill EXCEPT !.raw = FALSE, !.answer = b, !.pc = "k_done",
                                     !.err = <<"User did not enter y/Y, aborting">>]
                  ELSE [kill EXCEPT !.raw = FALSE, !.answer = b, !.pc = "k_send"]
    /\ UNCHANGED <<globals, mutex, disk, host, pc, req, loc, ret, crashed,
                   atLock, prevGet, saved, ntlm>>

\* Lines 58-65: one turn of the loop over the connections: SendRequest,
\* and the return after it when there is only one connection.
KillSend ==
    /\ kill.pc = "k_send"
    /\ \E id \in kill.left :
          LET k == [kill EXCEPT !.sent[id] = @ + 1, !.left = @ \ {id}]
          IN  kill' = IF Cardinality(kill.conns) = 1
                      THEN [k EXCEPT !.pc = "k_done", !.err = <<id, " killed">>]
                      ELSE k
    /\ UNCHANGED <<globals, mutex, disk, host, pc, req, loc, ret, crashed,
                   atLock, prevGet, saved, ntlm>>

\* Line 67: the loop is over.
KillReturn ==
    /\ kill.pc = "k_send"
    /\ kill.left = {}
    /\ kill' = [kill EXCEPT !.pc = "k_done",
                             !.err = <<Cardinality(kill.conns), " connections killed">>]
    /\ UNCHANGED <<globals, mutex, disk, host, pc, req, loc, ret, crashed,
                   atLock, prevGet, saved, ntlm>>

\* A kill line with zero, one or two arguments, with or without -y, on a
\* terminal or on another io.ReadWriter.
InitKill ==
    /\ InitManager({FreshDir}, {LinuxAmd64})
    /\ ntlm = NoNtlm
    /\ kill \in {[NoKill EXCEPT !.pc = "k_start", !.nargs = n, !.y = y, !.isTerm = t] :
                    n \in 0..2, y \in BOOLEAN, t \in BOOLEAN}

NextKill ==
    \/ KillRun
    \/ KillPrompt
    \/ KillRead
    \/ KillSend
    \/ KillReturn

SpecKill == InitKill /\ [][NextKill]_vars

\* ------------------------------------------------ NTLM proxy credentials

\* The longest credential string.
MaxCredLen == 5

\* Credential strings: over an ordinary character, the backslash and the
\* colon.
CredStrings == UNION {[1..n -> {"x", "\\", ":"}] : n \in 0..MaxCredLen}

\* strings.SplitN(s, sep, 2): s cut at its first sep, or s alone.
SplitN2(s, sep) ==
    LET at == {i \in 1..Len(s) : s[i] = sep}
    IN  IF at = {} THEN <<s>>
        ELSE LET i == CHOOSE k \in at : \A j \in at : k <= j
             IN  <<SubSeq(s, 1, i - 1), SubSeq(s, i + 1, Len(s))>>

\* parseNTLMCreds, lines 17-35.
parseNTLMCreds(creds) ==
    LET failed(e) == [domain |-> <<>>, user |-> <<>>, pass |-> <<>>, err |-> e]
        parts == SplitOn(creds, "\\", <<>>)
    IN  IF creds = <<>> THEN failed(<<"NTLM credentials not provided">>)
        ELSE IF Len(parts) # 2 THEN failed(<<"invalid NTLM credentials format">>)
        ELSE LET userPassParts == SplitN2(parts[2], ":")
             IN  IF Len(userPassParts) # 2
                 THEN failed(<<"invalid NTLM credentials format">>)
                 ELSE [domain |-> parts[1], user |-> userPassParts[1],
                       pass |-> userPassParts[2], err |-> Nil]

\* SetNTLMProxyCreds, lines 13-15.
SetNTLMProxyCreds ==
    /\ \E creds \in CredStrings :
          /\ creds # ntlm.creds
          /\ ntlm' = [NoNtlm EXCEPT !.creds = creds]
    /\ UNCHANGED <<globals, mutex, disk, host, pc, req, loc, ret, crashed,
                   atLock, prevGet, saved, kill>>

\* getNTLMAuthHeader, lines 37-58: the negotiate message for an empty
\* challenge and the authenticate message otherwise; package ntlmssp may
\* fail to build either.
getNTLMAuthHeader ==
    /\ \E challenge \in BOOLEAN, built \in BOOLEAN :
          LET p == parseNTLMCreds(ntlm.creds)
              out == IF p.err # Nil THEN [header |-> <<>>, err |-> p.err]
                     ELSE IF ~challenge
                     THEN IF built
                          THEN [header |-> <<"NTLM ", "negotiate", p.domain>>, err |-> Nil]
                          ELSE [header |-> <<>>,
                                err |-> <<"failed to create NTLM negotiate message">>]
                     ELSE IF built
                          THEN [header |-> <<"NTLM ", "authenticate", p.user, p.pass>>,
                                err |-> Nil]
                          ELSE [header |-> <<>>, err |-> <<"failed to process NTLM challenge">>]
          IN  ntlm' = [ntlm EXCEPT !.called = TRUE, !.parsed = p,
                                   !.header = out.header, !.err = out.err]
    /\ UNCHANGED <<globals, mutex, disk, host, pc, req, loc, ret, crashed,
                   atLock, prevGet, saved, kill>>

InitNTLM ==
    /\ InitManager({FreshDir}, {LinuxAmd64})
    /\ kill = NoKill
    /\ ntlm = NoNtlm

NextNTLM ==
    \/ SetNTLMProxyCreds
    \/ getNTLMAuthHeader

SpecNTLM == InitNTLM /\ [][NextNTLM]_vars

\* ------------------------------------------------------ fair scheduling

\* A serving manager with one record in its cache.
InitFair == InitRunning({MapSet(EmptyMap, "a", OldFile)}, {FreshDir})

\* Callers that build (a valid target and an invalid one), look up, list
\* and evict.
NextFair ==
    \/ \E p \in Callers :
          Build(p, {BuildRequest("windows", "", "", "a", FALSE),
                    BuildRequest("", "mips", "", "", FALSE)})
    \/ \E p \in Callers : Get(p, FALSE, MaxHits)
    \/ \E p \in Callers : List(p, CallerFilters)
    \/ \E p \in Callers : Delete(p)

\* The scheduler runs every goroutine that can take a step, the compiler
\* and the version query terminate, and sync.RWMutex hands the lock to a
\* goroutine that is blocked on it: Unlock wakes the blocked readers and
\* the mutex of the writers is handed over in arrival order.  Nothing
\* obliges a caller to make a call, or the runtime to detect a race.
SpecFair ==
    /\ InitFair
    /\ [][NextFair]_vars
    /\ \A p \in Callers :
          /\ WF_vars(\/ BuildPrepare(p) \/ BuildCompile(p) \/ BuildCommit(p)
                     \/ BuildAdd(p) \/ BuildPersist(p) \/ BuildReturn(p)
                     \/ GetRead(p) \/ GetStore(p) \/ GetReturn(p, FALSE)
                     \/ ListScan(p) \/ ListReturn(p)
                     \/ DeleteCheck(p) \/ DeleteRemove(p) \/ DeletePersist(p)
                     \/ DeleteIndex(p) \/ DeleteFile(p))
          /\ SF_vars(\/ BuildLock(p) \/ BuildLocked(p) \/ GetRLock(p)
                     \/ ListRLock(p) \/ DeleteLock(p) \/ DeleteLocked(p))

\* ================================================================ claims

\* Where a Build stands between starting and finishing its compiler run.
Compiling(p) == pc[p] = "b_compile"

\* Where a Build stands from its collision check to its commit.
BuildInProgress(p) == pc[p] \in {"b_compile", "b_commit"}

\* Where a reader stands inside its read-locked section.
Reading(p) == pc[p] \in {"g_read", "g_store", "g_ret", "l_scan", "l_ret"}

\* A record whose path, operating system and architecture are all set.
Complete(f) == f.Path # <<>> /\ f.Goos # "" /\ f.Goarch # ""

\* C1: at most one Build is between starting and finishing its compiler run,
\* and that Build holds the write lock, with no reader inside, all the while.
C1_OneCompilerAtATime ==
    /\ Cardinality({p \in Callers : Compiling(p)}) <= 1
    /\ \A p \in Callers : Compiling(p) => writer = {p} /\ held /\ readers = {}

\* A compiler run in flight while another Build and a reader wait for the lock.
C1_Witness ==
    \E p, q \in Callers :
        /\ p # q
        /\ Compiling(p)
        /\ pc[q] \in {"b_lock", "g_rlock", "l_rlock"}

\* C2: every record a reader can see is complete: the records of the map in
\* every state, the record Get has read and returns, the records List has
\* copied and returns; no reader is inside its read section while a Build
\* is in progress, and the name being built is not in the map.
C2_NoPartialRecord ==
    /\ \A k \in DOMAIN cache : Complete(cache[k])
    /\ \A p \in Callers :
          /\ pc[p] \in {"g_store", "g_ret"} => Complete(loc[p].entry)
          /\ pc[p] = "l_ret" =>
                \A k \in DOMAIN loc[p].matching : Complete(loc[p].matching[k])
          /\ BuildInProgress(p) =>
                /\ ~MapHas(cache, loc[p].name)
                /\ \A q \in Callers : ~Reading(q)
    /\ ret.op = "Get" /\ ret.err = Nil => Complete(ret.val)
    /\ ret.op = "List" /\ ret.err = Nil =>
          \A k \in DOMAIN ret.val : Complete(ret.val[k])

\* A Get that returns a record built by a concurrent caller's Build while
\* another Build is waiting for the lock.
C2_Witness ==
    /\ ret.op = "Get"
    /\ ret.err = Nil
    /\ ret.args.key = "r"
    /\ \E q \in Callers : q # ret.p /\ pc[q] \in {"b_lock", "b_wait"}

\* C3: whenever a goroutine is about to write the cache map it holds the
\* write lock, and no other goroutine is about to read or write the map.
C3_MapAccessExcluded ==
    \A p \in Procs :
        pc[p] \in MapWriters =>
            /\ writer = {p}
            /\ held
            /\ \A q \in Procs \ {p} : pc[q] \notin MapReaders \cup MapWriters

\* C4: every completed hit-counter store of Get(k) raises the hitCount of k
\* in the map by exactly one, and no step lowers the hitCount of a key that
\* stays in the map.
C4_HitsExact ==
    [][/\ \A p \in Callers :
             pc[p] = "g_store" /\ pc'[p] = "g_ret" =>
                 MapGet(cache', req[p].key).Hits = MapGet(cache, req[p].key).Hits + 1
       /\ \A k \in DOMAIN cache \cap DOMAIN cache' :
             cache'[k].Hits >= cache[k].Hits]_vars

\* The same record but for its hitCount.
SameButHits(f, g) == [f EXCEPT !.Hits = 0] = [g EXCEPT !.Hits = 0]

\* C5: a Get(k) that follows the same caller's earlier Get(k), with no
\* Delete of k in between, succeeds, returns a hitCount strictly greater
\* than the earlier one and the same other fields; the store of Get changes
\* nothing in the map but the hitCount of k.
C5_SuccessiveGets ==
    [][\A p \in Callers :
          /\ pc[p] = "g_read" /\ prevGet[p].key = req[p].key /\ pc'[p] \notin {"g_read", "dead"}
                => pc'[p] = "g_store"
          /\ pc[p] = "g_ret" /\ prevGet[p].key = req[p].key /\ pc'[p] = "idle"
                => /\ ret'.err = Nil
                   /\ ret'.val.Hits > prevGet[p].file.Hits
                   /\ SameButHits(ret'.val, prevGet[p].file)
          /\ pc[p] = "g_store" /\ pc'[p] = "g_ret"
                => /\ DOMAIN cache' = DOMAIN cache
                   /\ \A k \in DOMAIN cache :
                         IF k = req[p].key
                         THEN SameButHits(cache'[k], cache[k])
                         ELSE cache'[k] = cache[k]]_vars

\* A request whose architecture or operating system is given and is not in
\* the catalog's set of architectures or of operating systems.
BadComponent(r) ==
    \/ r.goarch # "" /\ r.goarch \notin validArchs
    \/ r.goos # "" /\ r.goos \notin validPlatforms

\* The positions of a Build that has passed validation.
BuildPositions ==
    {"b_lock", "b_wait", "b_name", "b_compile", "b_commit", "b_add", "b_persist", "b_ret"}

\* C6 as stated: the compiler is never started for a pair that is not one
\* of the pairs the toolchain lists.
C6_NoCompilerOutsideCatalog ==
    \A p \in Callers :
        Compiling(p) => <<loc[p].f.Goos, loc[p].f.Goarch>> \in ToolchainPairs

\* C6: with delivery enabled, a Build whose architecture, or else whose
\* operating system, is given and is not in the catalog's set for that
\* component returns in one step the validation error naming that value
\* (the architecture first), never reaches the lock or the compiler, and
\* leaves the map, the index and the snapshot unchanged.
C6_ComponentsValidated ==
    [][\A p \in Callers :
          /\ pc'[p] \in BuildPositions => ~BadComponent(req'[p])
          /\ ret'.op = "Build" /\ ret'.p = p /\ webserverOn /\ BadComponent(ret'.args)
                => /\ pc[p] = "idle"
                   /\ pc'[p] = "idle"
                   /\ ret'.err =
                         IF ret'.args.goarch # "" /\ ret'.args.goarch \notin validArchs
                         THEN <<"GOARCH supplied is not valid: ", ret'.args.goarch>>
                         ELSE <<"GOOS supplied is not valid: ", ret'.args.goos>>
                   /\ cache' = cache
                   /\ Autocomplete' = Autocomplete
                   /\ disk' = disk]_vars

\* A Build for an operating system outside the catalog has returned its
\* validation error, and a Build for an unlisted pair of listed components
\* has reached the compiler.
C6_Witness ==
    /\ ret.op = "Build"
    /\ ret.err = <<"GOOS supplied is not valid: ", "darwin">>
    /\ \E q \in Callers :
          /\ Compiling(q)
          /\ <<loc[q].f.Goos, loc[q].f.Goarch>> \notin ToolchainPairs

\* The error of line 79.
CollisionError == <<"This link name is already in use">>

\* C7: a Build whose supplied name is in the map returns the collision
\* error (or the earlier random-source error) without starting the
\* compiler; the compiler is started, and the record committed, only for a
\* name that is not in the map; and no step of a Build changes or removes a
\* record that is in the map.
C7_NameNeverOverwritten ==
    [][\A p \in Callers :
          /\ (pc[p] = "b_name" /\ pc'[p] \notin {"b_name", "dead"}
                /\ req[p].name # "" /\ MapHas(cache, req[p].name))
                => /\ pc'[p] = "idle"
                   /\ ret'.op = "Build" /\ ret'.p = p
                   /\ ret'.err \in {CollisionError, <<"rand.Read">>}
          /\ pc'[p] \in {"b_compile", "b_commit"} => ~MapHas(cache', loc'[p].name)
          /\ pc[p] \in BuildPositions /\ pc'[p] # pc[p]
                => \A k \in DOMAIN cache : MapHas(cache', k) /\ cache'[k] = cache[k]
          /\ ret'.op = "Build" /\ ret'.p = p /\ ret'.err = CollisionError
                => /\ pc[p] = "b_name"
                   /\ cache' = cache
                   /\ \/ MapHas(cache, ret'.args.name)
                      \/ ret'.args.name = "" /\ \E n \in RandomNames : MapHas(cache, n)]_vars

\* A Build of name "a" has returned the collision error while the record
\* that a concurrent caller's Build committed under "a" is in the map.
C7_Witness ==
    /\ ret.op = "Build"
    /\ ret.args.name = "a"
    /\ ret.err = CollisionError
    /\ MapHas(cache, "a")
    /\ cache["a"].Goos = "windows"

\* The map, the index and the snapshot a Build must restore on failure:
\* those at its lock acquisition if it holds the lock, else the current ones.
Before(p) ==
    IF writer = {p} /\ held
    THEN atLock
    ELSE [cache |-> cache, index |-> Autocomplete, snap |-> disk.snap]

\* The errors Build returns.
BuildErrors ==
    {<<"Web server is not enabled.">>, CollisionError, <<"rand.Read">>,
     <<"Error: ", "exit status 1">>}
    \cup {<<"GOARCH supplied is not valid: ", a>> : a \in ReqArch}
    \cup {<<"GOOS supplied is not valid: ", o>> : o \in ReqOS}

\* C8: a Build that returns an error returns one of its errors before
\* anything is committed and leaves the map, the index and the snapshot as
\* they were; until its commit a Build changes none of them; and a Build
\* returns success only from the end of its commit sequence, with its
\* record in the map.
C8_FailedBuildChangesNothing ==
    [][\A p \in Callers :
          /\ ret'.op = "Build" /\ ret'.p = p /\ ret'.err # Nil
                => /\ pc[p] \in {"idle", "b_name", "b_compile"}
                   /\ ret'.err \in BuildErrors
                   /\ ret'.val = <<>>
                   /\ cache' = Before(p).cache
                   /\ Autocomplete' = Before(p).index
                   /\ disk'.snap = Before(p).snap
          /\ pc[p] \in {"b_lock", "b_wait", "b_name", "b_compile"} /\ pc'[p] \notin {pc[p], "dead"}
                => cache' = cache /\ Autocomplete' = Autocomplete /\ disk' = disk
          /\ pc[p] \in {"b_name", "b_compile"}
                => /\ cache = atLock.cache
                   /\ Autocomplete = atLock.index
                   /\ disk.snap = atLock.snap
          /\ ret'.op = "Build" /\ ret'.p = p /\ ret'.err = Nil
                => pc[p] = "b_ret" /\ MapHas(cache', loc[p].name)]_vars

\* A Build has returned the compiler's failure while the map holds records.
C8_Witness ==
    /\ ret.op = "Build"
    /\ ret.err = <<"Error: ", "exit status 1">>
    /\ cache # EmptyMap

\* C9: when a Build returns success the lock is still held by it, the map
\* is the map at its lock acquisition plus one record under its name, the
\* record's operating system and architecture are the requested ones or the
\* host's where the request left them empty, the name is in the index, the
\* snapshot file, where it can be written, decodes to the map, and the
\* value returned is
\* http://<address>/<name> with the default address for an empty request.
C9_SuccessfulBuild ==
    [][\A p \in Callers :
          ret'.op = "Build" /\ ret'.p = p /\ ret'.err = Nil =>
             LET name == loc[p].name
                 args == ret'.args
             IN  /\ writer = {p} /\ held /\ readers = {}
                 /\ name # ""
                 /\ IF args.name # "" THEN name = args.name ELSE name \in RandomNames
                 /\ ~MapHas(atLock.cache, name)
                 /\ DOMAIN cache = DOMAIN atLock.cache \cup {name}
                 /\ \A k \in DOMAIN atLock.cache : cache[k] = atLock.cache[k]
                 /\ cache[name].Goos = IF args.goos # "" THEN args.goos ELSE host.os
                 /\ cache[name].Goarch = IF args.goarch # "" THEN args.goarch ELSE host.arch
                 /\ cache[name].Hits = 0
                 /\ Autocomplete = atLock.index \cup {name}
                 /\ loc[p].wrote = disk.writable
                 /\ disk.writable =>
                       Unmarshal(disk.snap, EmptyMap) = [map |-> cache, err |-> FALSE]
                 /\ cache' = cache /\ Autocomplete' = Autocomplete /\ disk' = disk
                 /\ ret'.val = <<"http://",
                                 IF args.addr # "" THEN args.addr ELSE defaultConnectBack,
                                 "/", name>>]_vars

\* A Build with no address has returned the URL at the default address.
C9_Witness ==
    /\ ret.op = "Build"
    /\ ret.err = Nil
    /\ ret.args.addr = ""
    /\ ret.val = <<"http://", defaultConnectBack, "/", "a">>
    /\ MapHas(cache, "a")
    /\ cache["a"].Goos = "windows"
    /\ cache["a"].Goarch = host.arch
    /\ Unmarshal(disk.snap, EmptyMap).map = cache

\* C10: when a successful Build or a Delete that removed its key returns,
\* the snapshot it wrote decodes to exactly the map; and between its
\* mutation of the map and its persist it holds the write lock with no
\* reader inside.
C10_SnapshotReflectsMap ==
    [][\A p \in Callers :
          /\ ((ret'.op = "Build" /\ ret'.p = p /\ ret'.err = Nil)
                \/ (ret'.op = "Delete" /\ ret'.p = p /\ pc[p] = "d_file"))
                => (loc[p].wrote =>
                      Unmarshal(disk'.snap, EmptyMap) = [map |-> cache', err |-> FALSE])
          /\ pc[p] \in {"b_add", "b_persist", "d_persist"}
                => /\ writer = {p} /\ held /\ readers = {}
                   /\ \A q \in Callers : ~Reading(q)]_vars

\* A Delete has returned after removing a record from a map that still
\* holds another, and the snapshot holds that other record.
C10_Witness ==
    /\ ret.op = "Delete"
    /\ ret.err = Nil
    /\ cache # EmptyMap
    /\ ~MapHas(cache, ret.args.key)
    /\ Unmarshal(disk.snap, EmptyMap).map = cache

\* C11: when the startup load follows a writeCache() of a map and a
\* restart, reading description.json decodes to exactly the map that was
\* written, with every key of it in the index; the load step leaves the
\* cache equal to that map and the index equal to its keys, or, when the
\* file cannot be read, leaves both empty.
C11_RoundTrip ==
    [][pc[Main] = "s_load" /\ pc'[Main] = "s_path" =>
          /\ cache = EmptyMap /\ Autocomplete = {}
          /\ disk.snap = SnapshotOf(saved)
          /\ LoadCache(disk.snap, TRUE) = [map |-> saved, index |-> DOMAIN saved]
          /\ \/ cache' = saved /\ Autocomplete' = DOMAIN saved
             \/ cache' = EmptyMap /\ Autocomplete' = {}]_vars

\* A restarted server has loaded two different records, one of them with
\* a non-zero hit counter, and both keys are in the index.
C11_Witness ==
    /\ pc[Main] = "s_up"
    /\ saved # EmptyMap
    /\ cache = saved
    /\ DOMAIN cache = {"a", "r"}
    /\ cache["a"] = NewFile
    /\ cache["r"] = OldFile
    /\ Autocomplete = {"a", "r"}

\* The error of Get and Delete for a key that is not in the map.
NotFound(key) == <<"Unable to find cache entry: ", key>>

\* C12: a Delete of a key that is in the map reaches the removal of the
\* artifact file with the key already out of the map, out of the index and
\* out of the written snapshot, and returns nil or the file-removal error
\* with that state kept; a Delete of a key that is not in the map returns
\* the not-found error and changes nothing; a Get of a key that is not in
\* the map returns the not-found error, and a List copies only records of
\* the map.
C12_DeleteRemovesBeforeFile ==
    [][\A p \in Callers :
          /\ (pc[p] = "d_check" /\ pc'[p] \notin {"d_check", "dead"})
                => IF MapHas(cache, req[p].key)
                   THEN pc'[p] = "d_delete" /\ cache' = cache /\ ret'.op = "none"
                   ELSE /\ pc'[p] = "idle"
                        /\ ret'.op = "Delete" /\ ret'.p = p
                        /\ ret'.err = NotFound(req[p].key)
                        /\ cache' = cache /\ Autocomplete' = Autocomplete /\ disk' = disk
          /\ (ret'.op = "Delete" /\ ret'.p = p /\ ret'.err # NotFound(ret'.args.key))
                => /\ pc[p] = "d_file"
                   /\ ret'.err \in {Nil, <<"remove ">> \o loc[p].entry.Path}
                   /\ MapHas(atLock.cache, ret'.args.key)
                   /\ DOMAIN cache' = DOMAIN atLock.cache \ {ret'.args.key}
                   /\ \A k \in DOMAIN cache' : cache'[k] = atLock.cache[k]
                   /\ Autocomplete' = atLock.index \ {ret'.args.key}
                   /\ loc[p].wrote =>
                         Unmarshal(disk'.snap, EmptyMap) = [map |-> cache', err |-> FALSE]
          /\ (pc[p] = "g_read" /\ pc'[p] \notin {"g_read", "dead"} /\ ~MapHas(cache, req[p].key))
                => /\ ret'.op = "Get" /\ ret'.p = p
                   /\ ret'.err = NotFound(req[p].key)
          /\ (pc[p] = "l_scan" /\ pc'[p] = "l_ret")
                => /\ DOMAIN loc'[p].matching \subseteq DOMAIN cache
                   /\ \A k \in DOMAIN loc'[p].matching : loc'[p].matching[k] = cache[k]]_vars

\* A Delete has returned the file-removal error, and its key is out of the
\* map, the index and the snapshot, which still hold another record.
C12_Witness ==
    /\ ret.op = "Delete"
    /\ ret.err # Nil
    /\ ret.err # NotFound(ret.args.key)
    /\ ~MapHas(cache, ret.args.key)
    /\ ret.args.key \notin Autocomplete
    /\ cache # EmptyMap
    /\ Unmarshal(disk.snap, EmptyMap).map = cache

\* What each well-formed filter of ListFilters glob-matches among the
\* keys, operating systems and architectures of the records.
Globbed(filter) ==
    CASE filter = <<"a">> -> {"a"}
      [] filter = <<"r">> -> {"r"}
      [] filter = <<"a", "*">> -> {"a", "amd64", "arm64"}
      [] filter = <<"w", "?", "n", "*">> -> {"windows"}
      [] filter = <<"[", "l", "w", "]", "i", "*">> -> {"linux", "windows"}
      [] filter = <<"*", "6", "4">> -> {"amd64", "arm64"}
      [] filter = <<"*">> -> {"a", "r", "linux", "windows", "amd64", "arm64"}
      [] OTHER -> {}

\* The filters of ListFilters that are not well-formed glob patterns.
Malformed == {<<"[", "a">>, <<"z", "[">>, <<"[", "]">>, <<"[", "]", "a", "]">>}

\* The records List must return for a well-formed filter.
Listed(m, filter) ==
    [k \in {k \in DOMAIN m :
              \/ filter = <<>>
              \/ k \in Globbed(filter)
              \/ m[k].Goos \in Globbed(filter)
              \/ m[k].Goarch \in Globbed(filter)} |-> m[k]]

\* C13: a List with a malformed filter returns the malformed-filter error
\* and no records without taking the lock; a List with a well-formed filter
\* returns, with no error, exactly the records whose key, operating system
\* or architecture the filter glob-matches, all records for the empty
\* filter; and no step of a List changes the map, the index or the disk.
C13_ListExact ==
    [][\A p \in Callers :
          /\ (ret'.op = "List" /\ ret'.p = p /\ ret'.args.filter \in Malformed)
                => /\ pc[p] = "idle" /\ pc'[p] = "idle"
                   /\ ret'.err = <<"Filter is not well formed">>
                   /\ ret'.val = EmptyMap
          /\ (ret'.op = "List" /\ ret'.p = p /\ ret'.args.filter \notin Malformed)
                => /\ pc[p] = "l_ret"
                   /\ ret'.err = Nil
                   /\ ret'.val = Listed(cache, ret'.args.filter)
          /\ pc'[p] \in {"l_rlock", "l_scan", "l_ret"} => req'[p].filter \notin Malformed
          /\ (pc[p] \in {"idle", "l_rlock", "l_scan", "l_ret"} /\ pc'[p] # pc[p])
                => cache' = cache /\ Autocomplete' = Autocomplete /\ disk' = disk]_vars

\* A List has returned one record of a map of two: the one whose
\* operating system the filter matches, under a key it does not match.
C13_Witness ==
    /\ ret.op = "List"
    /\ ret.err = Nil
    /\ ret.args.filter = <<"w", "?", "n", "*">>
    /\ DOMAIN cache = {"a", "r"}
    /\ DOMAIN ret.val = {"r"}
    /\ ret.val["r"] = cache["r"]

\* description.json is there and json.Unmarshal of it reports an error.
BadSnapshot == disk.snap.exists /\ Unmarshal(disk.snap, EmptyMap).err

\* C14: once the startup load has run over a description.json that cannot
\* be deserialized, the map and the index are empty, and startup goes on to
\* return nil.
C14_BadSnapshotLeavesCacheEmpty ==
    /\ (BadSnapshot /\ pc[Main] \in {"s_path", "s_up", "serving"})
          => cache = EmptyMap /\ Autocomplete = {}
    /\ (BadSnapshot /\ ret.op = "startBuildManager" /\ pc[Main] = "s_up")
          => ret.err = Nil

\* C15: when startup leaves its inspection of the cache directory or its
\* probe of it, it either goes on (the directory is usable) or has
\* returned an error with the map empty, no cache path set and the lock
\* released; it does not crash.
C15_UnusableDirectoryIsAnError ==
    [][(pc[Main] \in {"s_dir", "s_probe"} /\ pc'[Main] # pc[Main]) =>
          \/ pc'[Main] \in {"s_probe", "s_load"}
          \/ /\ pc'[Main] = "s_failed"
             /\ ~crashed'
             /\ ret'.op = "startBuildManager" /\ ret'.err # Nil
             /\ cache' = EmptyMap
             /\ cachePath' = ""
             /\ writer' = {} /\ ~held']_vars

\* The cross-compiling C toolchain of line 129.
CrossCompiler == "x86_64-w64-mingw32-gcc"

\* C16 as stated: at the compiler, native interop is on exactly for a
\* shared object, and the cross compiler is selected exactly for a shared
\* object for windows/amd64 built on an amd64 host that is not Windows.
C16_CrossCompilerOnAmd64Host ==
    \A p \in Callers :
        Compiling(p) =>
            /\ EnvValue(loc[p].env, "CGO_ENABLED") = (IF req[p].shared THEN "1" ELSE "0")
            /\ EnvValue(loc[p].env, "CC") = CrossCompiler
                  <=> /\ req[p].shared
                      /\ loc[p].f.Goos = "windows" /\ loc[p].f.Goarch = "amd64"
                      /\ host.os # "windows" /\ host.arch = "amd64"

\* C16: at the compiler, CGO_ENABLED is 1 exactly for a shared object; CC
\* is the cross compiler exactly for a shared object for windows/amd64
\* built on a linux host, whatever the host's architecture; CC is set to
\* the empty string for every other shared object and is not set for an
\* executable; GOOS and GOARCH are those of the record.
C16_CrossCompilerOnLinuxHost ==
    \A p \in Callers :
        Compiling(p) =>
            /\ EnvValue(loc[p].env, "CGO_ENABLED") = (IF req[p].shared THEN "1" ELSE "0")
            /\ EnvValue(loc[p].env, "GOOS") = loc[p].f.Goos
            /\ EnvValue(loc[p].env, "GOARCH") = loc[p].f.Goarch
            /\ loc[p].f.FileType = (IF req[p].shared THEN "shared-object" ELSE "executable")
            /\ EnvValue(loc[p].env, "CC") =
                  IF ~req[p].shared THEN "(inherited)"
                  ELSE IF loc[p].f.Goos = "windows" /\ loc[p].f.Goarch = "amd64"
                          /\ host.os = "linux"
                       THEN CrossCompiler
                       ELSE ""

\* A shared object for windows/amd64 is at the compiler on a linux/arm64
\* host with the cross compiler selected.
C16_Witness ==
    \E p \in Callers :
        /\ Compiling(p)
        /\ req[p].shared
        /\ host = [os |-> "linux", arch |-> "arm64", git |-> TRUE]
        /\ loc[p].f.Goos = "windows" /\ loc[p].f.Goarch = "amd64"
        /\ EnvValue(loc[p].env, "CC") = CrossCompiler

\* C17: no client is sent more than one kill request; a client is sent one
\* only if it is a matched connection of a one-argument line and the
\* operator has confirmed; when Run has returned, every matched connection
\* of a confirmed line has been sent exactly one and otherwise none has
\* been sent any; no prompt is written with -y; and the terminal is in raw
\* mode only while Run waits for the answer, never after Run has returned.
C17_KillOnlyAfterConfirmation ==
    LET Confirmation == kill.y \/ kill.answer \in {"y", "Y"}
    IN
    /\ \A c \in Clients :
          /\ kill.sent[c] <= 1
          /\ kill.sent[c] = 1 => c \in kill.conns /\ kill.nargs = 1 /\ Confirmation
    /\ kill.pc = "k_done" =>
          /\ ~kill.raw
          /\ \A c \in Clients :
                kill.sent[c] = (IF kill.nargs = 1 /\ c \in kill.conns /\ Confirmation
                                THEN 1 ELSE 0)
    /\ kill.y => ~kill.prompted
    /\ kill.raw => kill.pc = "k_read" /\ kill.isTerm

\* Run has returned after the operator answered Y at the prompt of a
\* terminal, and each of the three matched connections has been sent one
\* kill request.
C17_Witness ==
    /\ kill.pc = "k_done"
    /\ ~kill.y
    /\ kill.isTerm
    /\ kill.prompted
    /\ kill.answer = "Y"
    /\ kill.conns = Clients
    /\ \A c \in Clients : kill.sent[c] = 1

\* C18: getNTLMAuthHeader parses a credential string with a backslash and a
\* colon after its first backslash into the text before that backslash,
\* the text between it and the first colon after it, and the whole
\* remainder; for every other string it returns the parse error and no
\* header.
C18_ParsesDomainUserPass ==
    ntlm.called =>
        LET c == ntlm.creds
            bs == {i \in 1..Len(c) : c[i] = "\\"}
            b == CHOOSE i \in bs : \A j \in bs : i <= j
            cs == {i \in 1..Len(c) : c[i] = ":" /\ i > b}
            k == CHOOSE i \in cs : \A j \in cs : i <= j
        IN  IF bs # {} /\ cs # {}
            THEN ntlm.parsed = [domain |-> SubSeq(c, 1, b - 1),
                                user |-> SubSeq(c, b + 1, k - 1),
                                pass |-> SubSeq(c, k + 1, Len(c)),
                                err |-> Nil]
            ELSE /\ ntlm.parsed.err # Nil
                 /\ ntlm.err = ntlm.parsed.err
                 /\ ntlm.header = <<>>

\* C19: whenever no operation holds the write lock, the keys registered in
\* the index are the keys of the map.
C19_IndexMirrorsKeys == ~held => Autocomplete = DOMAIN cache

\* C20: every Build, Get, List and Delete call that has been made
\* eventually returns, holding no side of the lock once it has.
C20_EveryCallReturns ==
    \A p \in Callers :
        (pc[p] # "idle") ~> (pc[p] = "idle" /\ p \notin writer /\ p \notin readers)

====
